---- MODULE Spec2Model ----
(***************************************************************************)
(* A model of the coder-cli agent: the AgentController loop                *)
(* (src/core/AgentController.ts), the ActionExecutor it dispatches to      *)
(* (tools/ActionExecutor.ts, tools/toolSchemas.ts), the LLMClient it asks  *)
(* (llm/LLMClient.ts) and the RateLimiter the client retries through       *)
(* (utils/RateLimiter.ts).                                                 *)
(***************************************************************************)
EXTENDS Integers, Sequences, FiniteSets, TLC

(***************************************************************************)
(* Bounds of the model.                                                    *)
(***************************************************************************)
\* Iterations explored per run; config.maxIterations ranges over 1..MaxIter-1,
\* so that a run can be followed past its budget.
MaxIter == 3

(***************************************************************************)
(* Program constants.                                                      *)
(***************************************************************************)
\* RateLimiter constructor defaults: LLMClient builds `new RateLimiter()`.
DefaultBaseDelay == 1000
DefaultMaxRetries == 5

(***************************************************************************)
(* Values.                                                                 *)
(***************************************************************************)
\* A parameter bag with no keys ({} in JSON).
NoParams == << >>

\* `undefined` where an Action was expected; in a template string a missing
\* name prints as "undefined".
NoAction ==
    [hasName |-> FALSE, name |-> "undefined", hasParams |-> FALSE, parameters |-> NoParams]

\* {name, parameters}
Act(n, p) == [hasName |-> TRUE, name |-> n, hasParams |-> TRUE, parameters |-> p]

\* JSON values a reply can parse to.
JNull == [kind |-> "null", hasAction |-> FALSE, action |-> NoAction]
JScalar == [kind |-> "scalar", hasAction |-> FALSE, action |-> NoAction]
JObject(a) == [kind |-> "object", hasAction |-> TRUE, action |-> a]
JObjectNoAction == [kind |-> "object", hasAction |-> FALSE, action |-> NoAction]

\* A JSON string, by its characters, and an object {"k": <string>}.
JString(chars) ==
    [kind |-> "string", hasAction |-> FALSE, action |-> NoAction, chars |-> chars]
JObjectOf(member) ==
    [kind |-> "object", hasAction |-> FALSE, action |-> NoAction, k |-> member]

\* A text is a sequence of pieces: the triple backtick, the letters json,
\* white space, a double quote, the opening {"k": and the closing } of an
\* object, the JSON text of a value (no backtick in it), and other characters.
Fence == [t |-> "fence"]
JsonTag == [t |-> "json"]
Ws == [t |-> "ws"]
Quote == [t |-> "quote"]
ObjOpen == [t |-> "ob"]
ObjClose == [t |-> "cb"]
Junk == [t |-> "junk"]
Val(v) == [t |-> "value", v |-> v]

\* t wrapped as the tests wrap it: ```json\n t \n``` and ```\n t \n```.
jsonFenced(t) == <<Fence, JsonTag, Ws>> \o t \o <<Ws, Fence>>
bareFenced(t) == <<Fence, Ws>> \o t \o <<Ws, Fence>>

\* The replies (response.content) the model is given: a text is valid JSON or
\* not, may be wrapped in a code fence, and denotes a value.
Text(valid, fence, value) ==
    LET body == IF valid THEN <<Val(value)>> ELSE <<Junk>> IN
    CASE fence = "json" -> jsonFenced(body)
      [] fence = "bare" -> bareFenced(body)
      [] OTHER -> body

\* A parameter value that is JSON but no string (the number 5).
NotAString == "<number 5>"

ReplyActions ==
    { Act("shell", [command |-> "ls"]),
      Act("shell", [command |-> NotAString]),
      Act("shell", NoParams),
      Act("finish", [reason |-> "all done"]),
      Act("finish", [reason |-> ""]),
      Act("finish", [message |-> "Task complete"]),
      Act("bogus", NoParams),
      [hasName |-> FALSE, name |-> "undefined", hasParams |-> TRUE, parameters |-> NoParams],
      [hasName |-> TRUE, name |-> "shell", hasParams |-> FALSE, parameters |-> NoParams] }

Replies ==
    { Text(FALSE, "none", JNull), Text(TRUE, "none", JNull), Text(TRUE, "none", JScalar),
      Text(TRUE, "json", JObjectNoAction) }
    \cup { Text(TRUE, "none", JObject(a)) : a \in ReplyActions }
    \cup { Text(TRUE, "json", JObject(Act("shell", [command |-> "ls"]))),
           Text(TRUE, "bare", JObject(Act("finish", [reason |-> "all done"]))) }

\* Messages of errors the provider request can fail with.
RateLimitMessage == "OpenAI API rate limit exceeded. Retry after a short delay."
ProviderErrors == { RateLimitMessage, "Network Error" }

\* A call that either returns a value or throws an error with a message.
Returned(v) == [ok |-> TRUE, value |-> v, message |-> << >>]
Thrown(m) == [ok |-> FALSE, value |-> NoAction, message |-> m]

(***************************************************************************)
(* tools/toolSchemas.ts and tools/ActionExecutor.ts                        *)
(***************************************************************************)
\* actionSchemas[name].required, in the schema's order.
actionSchemas ==
    [shell |-> <<"command">>,
     readFileStats |-> <<"path">>,
     readFileChunk |-> <<"path", "startLine", "lineCount">>,
     appendFileChunk |-> <<"path", "content">>,
     finish |-> <<"reason">>]

\* registerActions with one more registration, of an action that has no schema.
actionRegistry_Unschemed ==
    {"shell", "readFileStats", "readFileChunk", "appendFileChunk", "finish", "bogus"}

\* The names ActionExecutor.registerActions puts in actionRegistry.
actionRegistry == {"shell", "readFileStats", "readFileChunk", "appendFileChunk", "finish"}

\* isActionRegistered answering true for every name.
isActionRegistered_Always(name) == TRUE

isActionRegistered(name) == name \in actionRegistry

\* The required parameters that action.parameters lacks, as indexes into required.
MissingIndexes(parameters, required) ==
    { i \in 1..Len(required) : required[i] \notin DOMAIN parameters }

\* validateParameters walking schema.required from its end.
validateParameters_LastMissing(action, required) ==
    IF Len(required) = 0 THEN Returned(action)
    ELSE IF ~action.hasParams
        THEN Thrown(<<"Cannot read properties of undefined (reading '", required[1], "')">>)
    ELSE LET missing == MissingIndexes(action.parameters, required) IN
        IF missing = {} THEN Returned(action)
        ELSE LET last == CHOOSE i \in missing : \A j \in missing : i >= j IN
            Thrown(<<"Missing required parameter \"", required[last],
                     "\" for action \"", action.name, "\"">>)

\* validateParameters: throws for the first required parameter that is undefined;
\* reading a key of an undefined parameter bag is a TypeError.
validateParameters(action, required) ==
    IF Len(required) = 0 THEN Returned(action)
    ELSE IF ~action.hasParams
        THEN Thrown(<<"Cannot read properties of undefined (reading '", required[1], "')">>)
    ELSE LET missing == MissingIndexes(action.parameters, required) IN
        IF missing = {} THEN Returned(action)
        ELSE LET first == CHOOSE i \in missing : \A j \in missing : i <= j IN
            Thrown(<<"Missing required parameter \"", required[first],
                     "\" for action \"", action.name, "\"">>)

\* ActionExecutor.execute up to the call of the implementation: the checks that
\* throw to the caller.
executeChecks(action) ==
    IF ~isActionRegistered(action.name)
        THEN Thrown(<<"Action \"", action.name, "\" is not registered">>)
    ELSE IF action.name \notin DOMAIN actionSchemas
        THEN Thrown(<<"Schema not found for action \"", action.name, "\"">>)
    ELSE validateParameters(action, actionSchemas[action.name])

\* What an implementation can do with the parameters it is called with: return
\* a result, or throw.  finish is pure; the shell's exit code is the
\* environment's choice, and exec throws when the command is no string; the
\* file actions catch what the file system throws and return it as a result.
implOutcomes(action) ==
    IF action.name = "finish"
        THEN LET reason == action.parameters["reason"] IN
            { Returned([success |-> TRUE,
                        message |-> IF reason = "" THEN "Task completed" ELSE reason]) }
    ELSE IF action.name = "shell"
        THEN IF action.parameters["command"] = NotAString
            THEN { Thrown(<<"The \"command\" argument must be of type string">>) }
            ELSE { Returned([success |-> TRUE, exitCode |-> 0]),
                   Returned([success |-> FALSE, exitCode |-> 1, error |-> "Command failed"]) }
    ELSE { Returned([success |-> TRUE, message |-> "ok"]),
           Returned([success |-> FALSE, message |-> "I/O error"]) }

\* execute's catch returning the error under success:true.
executeResult_SuccessOnThrow(outcome) ==
    IF outcome.ok THEN outcome.value
    ELSE [success |-> TRUE, error |-> outcome.message]

\* ActionExecutor.execute after the implementation settled: a throw becomes data.
executeResult(outcome) ==
    IF outcome.ok THEN outcome.value
    ELSE [success |-> FALSE, error |-> outcome.message]

(***************************************************************************)
(* llm/LLMClient.ts                                                        *)
(***************************************************************************)
Least(S) == CHOOSE i \in S : \A j \in S : i <= j
Greatest(S) == CHOOSE i \in S : \A j \in S : i >= j

\* String.prototype.trim
trim(s) ==
    LET inked == { i \in 1..Len(s) : s[i].t # "ws" } IN
    IF inked = {} THEN << >> ELSE SubSeq(s, Least(inked), Greatest(inked))

\* text.includes("```json"), text.includes("```")
jsonFenceAt(s, i) == i < Len(s) /\ s[i].t = "fence" /\ s[i + 1].t = "json"
includesJsonFence(s) == \E i \in 1..Len(s) : jsonFenceAt(s, i)
includesFence(s) == \E i \in 1..Len(s) : s[i].t = "fence"

\* text.split("```json")[1]: from the first ```json to the next one or the end.
splitJsonFence1(s) ==
    LET first == Least({ i \in 1..Len(s) : jsonFenceAt(s, i) })
        rest == SubSeq(s, first + 2, Len(s))
        more == { i \in 1..Len(rest) : jsonFenceAt(rest, i) }
    IN  IF more = {} THEN rest ELSE SubSeq(rest, 1, Least(more) - 1)

\* s.split("```")[0]: up to the first ``` or the end.
splitFence0(s) ==
    LET at == { i \in 1..Len(s) : s[i].t = "fence" } IN
    IF at = {} THEN s ELSE SubSeq(s, 1, Least(at) - 1)

\* text.split("```")[1]: from the first ``` to the next one or the end.
splitFence1(s) ==
    LET first == Least({ i \in 1..Len(s) : s[i].t = "fence" }) IN
    splitFence0(SubSeq(s, first + 1, Len(s)))

\* The characters between the quotes of a JSON string: no quote, and of the
\* value texts only null, which has none.
isString(s) ==
    /\ Len(s) >= 2
    /\ s[1].t = "quote"
    /\ s[Len(s)].t = "quote"
    /\ \A i \in 2..(Len(s) - 1) :
        \/ s[i].t \in {"fence", "json", "ws", "junk", "cb"}
        \/ s[i].t = "value" /\ s[i].v.kind = "null"

\* JSON.parse: white space around a value, a string, or an object of one string.
JSONparse(s) ==
    LET c == trim(s)
        inner == trim(SubSeq(c, 2, Len(c) - 1))
    IN  IF Len(c) = 1 /\ c[1].t = "value" THEN Returned(c[1].v)
        ELSE IF isString(c) THEN Returned(JString(SubSeq(c, 2, Len(c) - 1)))
        ELSE IF Len(c) >= 2 /\ c[1].t = "ob" /\ c[Len(c)].t = "cb" /\ isString(inner)
            THEN Returned(JObjectOf(JString(SubSeq(inner, 2, Len(inner) - 1))))
        ELSE Thrown(<<"Unexpected token">>)

\* parseJSON: cut out what follows the first fence, JSON.parse it.
parseJSON(text) ==
    LET jsonText ==
            IF includesJsonFence(text) THEN trim(splitFence0(splitJsonFence1(text)))
            ELSE IF includesFence(text) THEN trim(splitFence0(splitFence1(text)))
            ELSE text
        p == JSONparse(jsonText)
    IN  IF p.ok THEN p ELSE Thrown(<<"Invalid JSON in LLM response: ">> \o p.message)

\* sendPrompt without its catch: the limiter's error goes to the caller as it is.
sendPromptError_Rethrow(message) == <<message>>

\* sendPrompt's catch: every failure is rethrown under one wrapper message.
sendPromptError(message) == <<"Failed to get response from LLM: ", message>>

(***************************************************************************)
(* utils/RateLimiter.ts                                                    *)
(***************************************************************************)
\* execute's check that compares before the retry is counted.
retriesExceeded_OffByOne(retries, maxRetries) == retries >= maxRetries

\* execute rethrowing the first error: no retry at all.
retriesExceeded_AtOnce(retries, maxRetries) == TRUE

\* execute's check after retries++: the retries are used up.
retriesExceeded(retries, maxRetries) == retries > maxRetries

\* `await fn()` without the return: the loop goes round after a success.
afterFnResolves_CallAgain == "call"

\* execute's `return await fn()`: a resolved fn ends the call.
afterFnResolves == "returned"

RECURSIVE Pow2(_)
Pow2(n) == IF n <= 0 THEN 1 ELSE 2 * Pow2(n - 1)

\* The exponent the comment in calculateDelay names: baseDelay * 2^retryCount.
exponentialDelay_NoMinusOne(baseDelay, retryCount) == baseDelay * Pow2(retryCount)

\* calculateDelay: baseDelay * 2^(retryCount-1) ...
exponentialDelay(baseDelay, retryCount) == baseDelay * Pow2(retryCount - 1)

\* ... plus Math.random() * exponentialDelay * 0.5, Math.random() in [0, 1):
\* the least, a middle and the greatest whole number of milliseconds.
Jitters(exponential) == {0, exponential \div 4, (exponential - 1) \div 2}

calculateDelay(baseDelay, retryCount, jitter) ==
    exponentialDelay(baseDelay, retryCount) + jitter

(***************************************************************************)
(* core/AgentController.ts                                                 *)
(***************************************************************************)
VARIABLES
    \* AgentController
    history,          \* HistoryItem[] (timestamps left out)
    currentPlan,      \* "" until a plan is set
    iterationCount,
    maxIterations,    \* config.maxIterations
    \* run() and executeIteration()
    pc,               \* "loop" | "request" | "sleep" | "exec" | "done"
    done,             \* run()'s local
    prompt,           \* the prompt of the current iteration
    action,           \* the action parsed in the current iteration
    result,           \* the result the executor returned in the current iteration
    \* RateLimiter
    baseDelay,
    maxRetries,
    retries,          \* execute()'s local, 0 outside a call
    lastError,        \* execute()'s local: "" for null, the error it rethrew after that
    delay,            \* the delay being slept, 0 when not sleeping
    \* what an observer of the run sees
    sendPromptCalls,  \* calls of LLMClient.sendPrompt
    makeRequestCalls, \* calls of the provider's makeRequest by the last sendPrompt
    executeCalls,     \* calls of ActionExecutor.execute
    implCalls,        \* calls of an action implementation
    inflightRequests, \* provider requests not yet settled
    inflightActions,  \* action implementations not yet settled
    logged,           \* the message of the last error logged at the iteration boundary
    parsed,           \* what parseJSON made of the last reply
    iterEnd,          \* how the last iteration ended: "none" | "error" | "returned"
    historyAtStart,   \* history when the current iteration started
    executeCallsAtStart,
    onlyLLMFailures,  \* every iteration so far ended by sendPrompt throwing
    onlyActed,        \* every iteration so far executed a non-finish action to a result
    onlyActedBefore   \* onlyActed as it was before the last iteration ended

\* One ActionExecutor, called on its own.
VARIABLES
    exPc,             \* "idle" | "impl" | "returned" | "threw"
    exAction,         \* the action execute() was called with
    exImplCalled,     \* whether that call invoked the implementation
    exOutcome,        \* what the implementation did
    exResult          \* what execute() returned or threw

\* One RateLimiter, execute() called on its own with any operation.
VARIABLES
    rlPc,             \* "idle" | "call" | "sleep" | "returned" | "threw"
    rlBaseDelay,      \* this.baseDelay
    rlMaxRetries,     \* this.maxRetries
    rlRetries,        \* execute()'s local retries
    rlLastError,      \* execute()'s local lastError, "" for null
    rlDelay,          \* the delay execute() sleeps, 0 when it does not sleep
    rlCalls,          \* how often fn was invoked
    rlDelayCalls,     \* how often calculateDelay was invoked
    rlResolved,       \* what fn resolved with, "" while it did not
    rlResult          \* what execute() returned or threw

\* One LLMClient, parseJSON called on its own with any text.
VARIABLES
    pjPc,             \* "idle" | "parsed"
    pjText,           \* the text t
    pjPlain,          \* parseJSON(t)
    pjJsonFenced,     \* parseJSON of t in a json-tagged fence
    pjBareFenced      \* parseJSON of t in a bare fence

\* One readFileChunk call on one path.
VARIABLES
    rdPc,             \* "idle" | "open" (the stream is read) | "over"
    rdFile,           \* what is at the path
    rdStartLine,      \* params.startLine
    rdLineCount,      \* params.lineCount
    rdEmitted,        \* how many 'line' events readline has emitted
    rdCurrentLine,    \* currentLineNumber
    rdLines,          \* lines
    rdClosed,         \* rl.close() was called or the input ended
    rdErrored,        \* the file stream raised an error while it was read
    rdResult          \* what the promise is settled with

\* One readFileStats call on one path.
VARIABLES
    stPc,             \* "idle" | "done"
    stFile,           \* what is at the path
    stRead,           \* how fs.readFile ends: "ok" | "ENOENT" | "EACCES"
    stResult          \* what readFileStats returned

\* appendFileChunk calls on one path, one after the other.
VARIABLES
    apCalls,          \* how many calls were made
    apOriginal,       \* what was at the path before the first call
    apFile,           \* what is at the path
    apAppended,       \* the contents of the calls that returned success:true
    apResult          \* what the last call returned

\* Shell actions, executed one after the other.
VARIABLES
    shPc,             \* "idle" | "running" | "settled" | "rejected"
    shCalls,          \* how many shell actions were started
    shChild,          \* what the command of the current action does
    shCallback,       \* exec's callback was called
    shErrorEvent,     \* the child's 'error' event was emitted
    shResolves,       \* how often resolve() was called
    shResult          \* what the promise is settled with

\* cli.ts: the settings the program was started with.
VARIABLES
    config,           \* what loadConfig returned
    confirmations     \* confirmations the user was asked for and gave


\* llm/Tokenizer.ts: one call of one of its methods.
VARIABLES
    tkPc,             \* "idle" | "fits" | "remaining" | "truncating" | "truncated"
    tkModel,          \* the model name passed
    tkCount,          \* what countTokens returned last
    tkUsed,           \* usedTokens
    tkFits,           \* what fitsInContext returned
    tkRemaining,      \* what getRemainingTokens returned
    tkTextLen,        \* truncateToFit: text.length
    tkMaxTokens,      \* truncateToFit: maxTokens
    tkTruncLen,       \* truncateToFit: truncated.length
    tkSlices          \* truncateToFit: passes of the while loop


tk == <<tkPc, tkModel, tkCount, tkUsed, tkFits, tkRemaining, tkTextLen, tkMaxTokens,
        tkTruncLen, tkSlices>>

\* A caller paging through one file with readFileChunk.
VARIABLES
    pgPc,             \* "idle" | "paging" | "eof"
    pgFile,           \* the file's content
    pgLineCount,      \* the fixed lineCount of the calls
    pgStartLine,      \* startLine of the next call
    pgCalls,          \* calls made
    pgLines,          \* the lines of the chunks returned so far, in order
    pgResult          \* what the last call returned


pg == <<pgPc, pgFile, pgLineCount, pgStartLine, pgCalls, pgLines, pgResult>>
cli == <<config, confirmations>>
ex == <<exPc, exAction, exImplCalled, exOutcome, exResult>>
sh == <<shPc, shCalls, shChild, shCallback, shErrorEvent, shResolves, shResult>>
ap == <<apCalls, apOriginal, apFile, apAppended, apResult>>
st == <<stPc, stFile, stRead, stResult>>
rd == <<rdPc, rdFile, rdStartLine, rdLineCount, rdEmitted, rdCurrentLine, rdLines,
        rdClosed, rdErrored, rdResult>>
pj == <<pjPc, pjText, pjPlain, pjJsonFenced, pjBareFenced>>
rlu == <<rlPc, rlBaseDelay, rlMaxRetries, rlRetries, rlLastError, rlDelay, rlCalls,
         rlDelayCalls, rlResolved, rlResult>>
units == <<ex, rlu, pj, rd, st, ap, sh, cli, tk, pg>>

ctl == <<history, currentPlan, iterationCount, maxIterations, pc, done, prompt, action, result>>
rl == <<baseDelay, maxRetries, retries, lastError, delay>>
obs == <<sendPromptCalls, makeRequestCalls, executeCalls, implCalls, inflightRequests,
         inflightActions, logged, parsed, iterEnd, historyAtStart, executeCallsAtStart,
         onlyLLMFailures, onlyActed, onlyActedBefore>>
vars == <<ctl, rl, obs, units>>

\* What a call of one of them leaves alone.
agent == <<ctl, rl, obs>>
exRest == <<agent, rlu, pj, rd, st, ap, sh, cli, tk, pg>>
rluRest == <<agent, ex, pj, rd, st, ap, sh, cli, tk, pg>>
pjRest == <<agent, ex, rlu, rd, st, ap, sh, cli, tk, pg>>
rdRest == <<agent, ex, rlu, pj, st, ap, sh, cli, tk, pg>>
stRest == <<agent, ex, rlu, pj, rd, ap, sh, cli, tk, pg>>
apRest == <<agent, ex, rlu, pj, rd, st, sh, cli, tk, pg>>
shRest == <<agent, ex, rlu, pj, rd, st, ap, cli, tk, pg>>
pgRest == <<agent, ex, rlu, pj, rd, st, ap, sh, cli, tk>>
tkRest == <<agent, ex, rlu, pj, rd, st, ap, sh, cli, pg>>

NoResult == << >>
NotParsed == [ok |-> FALSE, value |-> NoAction, message |-> <<"no reply">>]

\* addToHistory, assigning the new item instead of pushing it.
addToHistory_Overwrite(h, type, content) == <<[type |-> type, content |-> content]>>

\* addToHistory, unshifting the new item instead of pushing it.
addToHistory_Unshift(h, type, content) == <<[type |-> type, content |-> content]>> \o h

\* addToHistory keeping a window of the last items: the oldest is shifted out.
addToHistory_Window(h, type, content) ==
    Append(IF Len(h) >= 2 THEN Tail(h) ELSE h, [type |-> type, content |-> content])

\* addToHistory that records observations only.
addToHistory_ObservationsOnly(h, type, content) ==
    IF type = "observation" THEN Append(h, [type |-> type, content |-> content]) ELSE h

\* addToHistory that files every item as a plan.
addToHistory_AsPlan(h, type, content) == Append(h, [type |-> "plan", content |-> content])

\* addToHistory
addToHistory(h, type, content) == Append(h, [type |-> type, content |-> content])

\* formatPrompt: one labelled block per history item, in order, and the plan
\* annotation when a plan is set.
HistoryLabel(type) ==
    CASE type = "plan" -> "PLAN:"
      [] type = "action" -> "ACTION:"
      [] type = "observation" -> "OBSERVATION:"
      [] OTHER -> ""

\* formatPrompt that keeps the last item only.
formatPrompt_LastOnly(h, plan) ==
    [blocks |-> [i \in 1..(IF Len(h) > 0 THEN 1 ELSE 0) |->
                    [label |-> HistoryLabel(h[Len(h)].type), content |-> h[Len(h)].content]],
     plan |-> plan]

formatPrompt(h, plan) ==
    [blocks |-> [i \in 1..Len(h) |-> [label |-> HistoryLabel(h[i].type), content |-> h[i].content]],
     plan |-> plan]

\* parseAction: parseJSON, then `.action` of the value; any throw is rewrapped.
parseAction(text) ==
    LET p == parseJSON(text) IN
    IF ~p.ok THEN Thrown(<<"Failed to parse action from LLM response: ">> \o p.message)
    ELSE IF p.value.kind = "null"
        THEN Thrown(<<"Failed to parse action from LLM response: ",
                      "Cannot read properties of null (reading 'action')">>)
    ELSE Returned(p.value)

\* executeIteration, from the reply to the first statement that throws or awaits:
\* "parse" when nothing was appended, "execute" when the executor threw, "await"
\* when the implementation was called.
iterationStage(text) ==
    LET p == parseAction(text) IN
    IF ~p.ok THEN [stage |-> "parse", message |-> p.message]
    ELSE IF ~p.value.hasAction
        THEN [stage |-> "parse",
              message |-> <<"Cannot read properties of undefined (reading 'name')">>]
    ELSE LET c == executeChecks(p.value.action) IN
        IF ~c.ok THEN [stage |-> "execute", message |-> c.message]
        ELSE [stage |-> "await", message |-> << >>]

\* The termination checks with the budget compared by > instead of >=.
isDone_OffByOne(name, count, max) == name = "finish" \/ count > max

\* The termination checks without the finish check.
isDone_NoFinish(name, count, max) == count >= max

\* The termination checks at the end of a successful iteration.
isDone(name, count, max) == name = "finish" \/ count >= max

\* The counter bumped twice at the start of an iteration.
incrementIteration_Twice(count) == count + 2

\* this.iterationCount++, the first statement of executeIteration
incrementIteration(count) == count + 1

\* run() looping whatever executeIteration returned.
loopContinues_Always(d) == TRUE

\* run(): while (!done)
loopContinues(d) == ~d

\* The executor called without await: control is back in run()'s loop while the
\* implementation still runs.
awaitExecute_Missing == "loop"

\* `await this.actionExecutor.execute(action)`: the iteration is suspended until
\* the implementation settles.
awaitExecute == "exec"

AgentInit ==
    /\ history = << >>
    /\ currentPlan = ""
    /\ iterationCount = 0
    /\ maxIterations \in 1..(MaxIter - 1)
    /\ pc = "loop"
    /\ done = FALSE
    /\ prompt = formatPrompt(<< >>, "")
    /\ action = NoAction
    /\ result = NoResult
    /\ baseDelay = DefaultBaseDelay
    /\ maxRetries = DefaultMaxRetries
    /\ retries = 0
    /\ lastError = ""
    /\ delay = 0
    /\ sendPromptCalls = 0
    /\ makeRequestCalls = 0
    /\ executeCalls = 0
    /\ implCalls = 0
    /\ inflightRequests = 0
    /\ inflightActions = 0
    /\ logged = << >>
    /\ parsed = NotParsed
    /\ iterEnd = "none"
    /\ historyAtStart = << >>
    /\ executeCallsAtStart = 0
    /\ onlyLLMFailures = TRUE
    /\ onlyActed = TRUE
    /\ onlyActedBefore = TRUE

\* No call of the executor yet.
NotCalled == Thrown(<<"not called">>)

ExecIdle ==
    /\ exPc = "idle"
    /\ exAction = NoAction
    /\ exImplCalled = FALSE
    /\ exOutcome = NotCalled
    /\ exResult = NotCalled

\* A RateLimiter built with the defaults, execute() not called.
LimiterIdle ==
    /\ rlPc = "idle"
    /\ rlBaseDelay = DefaultBaseDelay
    /\ rlMaxRetries = DefaultMaxRetries
    /\ rlRetries = 0
    /\ rlLastError = ""
    /\ rlDelay = 0
    /\ rlCalls = 0
    /\ rlDelayCalls = 0
    /\ rlResolved = ""
    /\ rlResult = NotCalled

\* parseJSON not called.
ParserIdle ==
    /\ pjPc = "idle"
    /\ pjText = << >>
    /\ pjPlain = NotCalled
    /\ pjJsonFenced = NotCalled
    /\ pjBareFenced = NotCalled

\* What is at a path: nothing, a directory, something stat is denied, or
\* a regular file with its characters.
Absent == [kind |-> "absent", content |-> << >>]
Directory == [kind |-> "directory", content |-> << >>]
Denied == [kind |-> "denied", content |-> << >>]
File(content) == [kind |-> "file", content |-> content]

\* readFileChunk not called.
ReaderIdle ==
    /\ rdPc = "idle"
    /\ rdFile = Absent
    /\ rdStartLine = 0
    /\ rdLineCount = 0
    /\ rdEmitted = 0
    /\ rdCurrentLine = 0
    /\ rdLines = << >>
    /\ rdClosed = FALSE
    /\ rdErrored = FALSE
    /\ rdResult = NotCalled

\* readFileStats not called.
StatsIdle ==
    /\ stPc = "idle"
    /\ stFile = Absent
    /\ stRead = "ok"
    /\ stResult = NotCalled

\* appendFileChunk not called.
AppenderIdle ==
    /\ apCalls = 0
    /\ apOriginal = Absent
    /\ apFile = Absent
    /\ apAppended = << >>
    /\ apResult = NotCalled

\* What a command does: it exits with a code, is killed by a signal, cannot
\* be spawned, never exits, or is no string at all.
Exits(code, stdout, stderr) ==
    [kind |-> "exits", code |-> code, stdout |-> stdout, stderr |-> stderr]
Killed(stdout, stderr) ==
    [kind |-> "killed", code |-> 0, stdout |-> stdout, stderr |-> stderr]
SpawnFails == [kind |-> "spawnfails", code |-> 0, stdout |-> "", stderr |-> ""]
NeverExits == [kind |-> "neverexits", code |-> 0, stdout |-> "", stderr |-> ""]
CommandNotAString == [kind |-> "notastring", code |-> 0, stdout |-> "", stderr |-> ""]

\* No shell action started.
ShellIdle ==
    /\ shPc = "idle"
    /\ shCalls = 0
    /\ shChild = NeverExits
    /\ shCallback = FALSE
    /\ shErrorEvent = FALSE
    /\ shResolves = 0
    /\ shResult = NotCalled

\* config/index.ts: the settings of a start without options.
defaultConfig ==
    [rateLimitBaseDelay |-> 1000, rateLimitMaxRetries |-> 5, confirmActions |-> FALSE]

\* loadConfig's overrides by the command line: a number option counts when it is
\* truthy (an option that was not given, or 0, leaves the default), the
\* --confirm-actions flag when it is not undefined (<< >> here).
loadConfig(cliArgs) ==
    [rateLimitBaseDelay |->
         IF cliArgs.rateLimitBaseDelay # 0 THEN cliArgs.rateLimitBaseDelay
         ELSE defaultConfig.rateLimitBaseDelay,
     rateLimitMaxRetries |->
         IF cliArgs.rateLimitMaxRetries # 0 THEN cliArgs.rateLimitMaxRetries
         ELSE defaultConfig.rateLimitMaxRetries,
     confirmActions |->
         IF cliArgs.confirmActions # << >> THEN cliArgs.confirmActions[1]
         ELSE defaultConfig.confirmActions]

\* Started without options; nobody was asked anything.
CliIdle ==
    /\ config = loadConfig([rateLimitBaseDelay |-> 0, rateLimitMaxRetries |-> 0,
                            confirmActions |-> << >>])
    /\ confirmations = 0


\* No method of the Tokenizer called.
TokenizerIdle ==
    /\ tkPc = "idle"
    /\ tkModel = ""
    /\ tkCount = 0
    /\ tkUsed = 0
    /\ tkFits = FALSE
    /\ tkRemaining = [type |-> "null"]
    /\ tkTextLen = 0
    /\ tkMaxTokens = 0
    /\ tkTruncLen = 0
    /\ tkSlices = 0


\* Nobody pages.
PagerIdle ==
    /\ pgPc = "idle"
    /\ pgFile = << >>
    /\ pgLineCount = 1
    /\ pgStartLine = 0
    /\ pgCalls = 0
    /\ pgLines = << >>
    /\ pgResult = NotCalled

CallsIdle ==
    /\ ExecIdle /\ LimiterIdle /\ ParserIdle /\ ReaderIdle /\ StatsIdle /\ AppenderIdle
    /\ ShellIdle
    /\ TokenizerIdle
    /\ PagerIdle

UnitsIdle == CallsIdle /\ CliIdle

Init == AgentInit /\ UnitsIdle

\* run() enters executeIteration: count, format the prompt, sendPrompt, and
\* RateLimiter.execute makes its first attempt.
StartIteration ==
    /\ pc = "loop"
    /\ loopContinues(done)
    /\ iterationCount < MaxIter
    /\ iterationCount' = incrementIteration(iterationCount)
    /\ prompt' = formatPrompt(history, currentPlan)
    /\ sendPromptCalls' = sendPromptCalls + 1
    /\ retries' = 0
    /\ lastError' = ""
    /\ makeRequestCalls' = 1
    /\ inflightRequests' = inflightRequests + 1
    /\ pc' = "request"
    /\ action' = NoAction
    /\ result' = NoResult
    /\ parsed' = NotParsed
    /\ iterEnd' = "none"
    /\ historyAtStart' = history
    /\ executeCallsAtStart' = executeCalls
    /\ UNCHANGED <<history, currentPlan, maxIterations, done, baseDelay, maxRetries, delay,
                   executeCalls, implCalls, inflightActions, logged, onlyLLMFailures,
                   onlyActed, onlyActedBefore>>
    /\ UNCHANGED units

\* run() leaves its loop.
RunReturn ==
    /\ pc = "loop"
    /\ ~loopContinues(done)
    /\ pc' = "done"
    /\ UNCHANGED <<history, currentPlan, iterationCount, maxIterations, done, prompt,
                   action, result, rl, obs>>
    /\ UNCHANGED units

\* The catch of executeIteration: log, return false.
IterationError(message) ==
    /\ logged' = message
    /\ iterEnd' = "error"
    /\ done' = FALSE
    /\ pc' = "loop"
    /\ onlyActedBefore' = onlyActed
    /\ onlyActed' = FALSE

\* The provider request fails and retries remain: back off.
RequestFailsRetry ==
    /\ pc = "request"
    /\ ~retriesExceeded(retries + 1, maxRetries)
    /\ \E message \in ProviderErrors :
        /\ lastError' = message
        /\ retries' = retries + 1
        /\ \E jitter \in Jitters(exponentialDelay(baseDelay, retries + 1)) :
            delay' = calculateDelay(baseDelay, retries + 1, jitter)
    /\ inflightRequests' = inflightRequests - 1
    /\ pc' = "sleep"
    /\ UNCHANGED <<history, currentPlan, iterationCount, maxIterations, done, prompt,
                   action, result, baseDelay, maxRetries, sendPromptCalls,
                   makeRequestCalls, executeCalls, implCalls, inflightActions, logged,
                   parsed, iterEnd, historyAtStart, executeCallsAtStart, onlyLLMFailures,
                   onlyActed, onlyActedBefore>>
    /\ UNCHANGED units

\* The backoff is over: the while loop of RateLimiter.execute calls fn again.
Wake ==
    /\ pc = "sleep"
    /\ retries <= maxRetries
    /\ delay' = 0
    /\ makeRequestCalls' = makeRequestCalls + 1
    /\ inflightRequests' = inflightRequests + 1
    /\ pc' = "request"
    /\ UNCHANGED <<history, currentPlan, iterationCount, maxIterations, done, prompt,
                   action, result, baseDelay, maxRetries, retries, lastError,
                   sendPromptCalls, executeCalls, implCalls, inflightActions, logged,
                   parsed, iterEnd, historyAtStart, executeCallsAtStart, onlyLLMFailures,
                   onlyActed, onlyActedBefore>>
    /\ UNCHANGED units

\* The provider request fails and the retries are used up: RateLimiter rethrows,
\* sendPrompt wraps, executeIteration catches.
RequestFailsFinal ==
    /\ pc = "request"
    /\ retriesExceeded(retries + 1, maxRetries)
    /\ \E message \in ProviderErrors :
        /\ lastError' = message
        /\ IterationError(sendPromptError(message))
    /\ retries' = 0
    /\ inflightRequests' = inflightRequests - 1
    /\ UNCHANGED <<history, currentPlan, iterationCount, maxIterations, prompt, action,
                   result, baseDelay, maxRetries, delay, sendPromptCalls,
                   makeRequestCalls, executeCalls, implCalls, inflightActions, parsed,
                   historyAtStart, executeCallsAtStart, onlyLLMFailures>>
    /\ UNCHANGED units

\* The reply arrives and no action comes out of it: parseAction throws, or the
\* value has no action to read a name from.
ReplyUnparsed ==
    /\ pc = "request"
    /\ \E text \in Replies :
        /\ iterationStage(text).stage = "parse"
        /\ parsed' = parseJSON(text)
        /\ IterationError(iterationStage(text).message)
    /\ inflightRequests' = inflightRequests - 1
    /\ onlyLLMFailures' = FALSE
    /\ retries' = 0
    /\ lastError' = ""
    /\ UNCHANGED <<history, currentPlan, iterationCount, maxIterations, prompt, action,
                   result, baseDelay, maxRetries, delay, sendPromptCalls, makeRequestCalls, executeCalls, implCalls,
                   inflightActions, historyAtStart, executeCallsAtStart>>
    /\ UNCHANGED units

\* The reply holds an action: it is appended to history and handed to
\* ActionExecutor.execute, which throws before it calls an implementation.
ReplyRejected ==
    /\ pc = "request"
    /\ \E text \in Replies :
        /\ iterationStage(text).stage = "execute"
        /\ parsed' = parseJSON(text)
        /\ action' = parseAction(text).value.action
        /\ history' = addToHistory(history, "action", parseAction(text).value.action)
        /\ IterationError(iterationStage(text).message)
    /\ executeCalls' = executeCalls + 1
    /\ inflightRequests' = inflightRequests - 1
    /\ onlyLLMFailures' = FALSE
    /\ retries' = 0
    /\ lastError' = ""
    /\ UNCHANGED <<currentPlan, iterationCount, maxIterations, prompt, result, baseDelay, maxRetries, delay,
                   sendPromptCalls, makeRequestCalls, implCalls, inflightActions,
                   historyAtStart, executeCallsAtStart>>
    /\ UNCHANGED units

\* The reply holds an action the executor accepts: it is appended to history and
\* its implementation is called.
ReplyDispatched ==
    /\ pc = "request"
    /\ \E text \in Replies :
        /\ iterationStage(text).stage = "await"
        /\ parsed' = parseJSON(text)
        /\ action' = parseAction(text).value.action
        /\ history' = addToHistory(history, "action", parseAction(text).value.action)
    /\ executeCalls' = executeCalls + 1
    /\ implCalls' = implCalls + 1
    /\ inflightActions' = inflightActions + 1
    /\ inflightRequests' = inflightRequests - 1
    /\ onlyLLMFailures' = FALSE
    /\ retries' = 0
    /\ lastError' = ""
    /\ pc' = awaitExecute
    /\ UNCHANGED <<currentPlan, iterationCount, maxIterations, done, prompt, result, baseDelay, maxRetries, delay,
                   sendPromptCalls, makeRequestCalls, logged, iterEnd, historyAtStart,
                   executeCallsAtStart, onlyActed, onlyActedBefore>>
    /\ UNCHANGED units

\* The implementation settles: the executor returns a result, which is appended
\* as an observation, and the termination checks run.
ActionSettles ==
    /\ pc = "exec"
    /\ \E outcome \in implOutcomes(action) :
        /\ result' = executeResult(outcome)
        /\ history' = addToHistory(history, "observation", executeResult(outcome))
    /\ inflightActions' = inflightActions - 1
    /\ done' = isDone(action.name, iterationCount, maxIterations)
    /\ iterEnd' = "returned"
    /\ pc' = "loop"
    /\ onlyActedBefore' = onlyActed
    /\ onlyActed' = (onlyActed /\ action.name # "finish")
    /\ UNCHANGED <<currentPlan, iterationCount, maxIterations, prompt, action, rl,
                   sendPromptCalls, makeRequestCalls, executeCalls, implCalls,
                   inflightRequests, logged, parsed, historyAtStart, executeCallsAtStart,
                   onlyLLMFailures>>
    /\ UNCHANGED units

Next ==
    \/ StartIteration
    \/ RunReturn
    \/ RequestFailsRetry
    \/ Wake
    \/ RequestFailsFinal
    \/ ReplyUnparsed
    \/ ReplyRejected
    \/ ReplyDispatched
    \/ ActionSettles

Spec == Init /\ [][Next]_vars

(***************************************************************************)
(* The run loop: termination and the iteration budget.                     *)
(***************************************************************************)
Last(h) == h[Len(h)]

\* An iteration boundary after at least one iteration.
AtBoundary == pc = "loop" /\ iterEnd # "none"

\* C1: if the model call fails on every iteration, run() performs at most
\* maxIterations iterations and then ends (done is set at the boundary of the
\* maxIterations-th failed iteration).
C1_FailingModelRunEnds ==
    onlyLLMFailures =>
        /\ iterationCount <= maxIterations
        /\ (AtBoundary /\ iterationCount >= maxIterations => done)

\* C2: the iteration counter never exceeds maxIterations and run() makes at most
\* maxIterations model requests, whatever mix of iterations succeed and fail.
C2_IterationBudget ==
    /\ iterationCount <= maxIterations
    /\ sendPromptCalls <= maxIterations

\* C3: if every reply is a valid non-finish action that executes to a result,
\* run() ends after exactly maxIterations iterations: maxIterations model
\* requests, maxIterations executor dispatches, and not one more.
C3_ActingRunEndsAtBudget ==
    onlyActed =>
        /\ iterationCount <= maxIterations
        /\ sendPromptCalls = iterationCount
        /\ (AtBoundary => (done <=> iterationCount = maxIterations))
        /\ (pc = "done" =>
               /\ iterationCount = maxIterations
               /\ sendPromptCalls = maxIterations
               /\ executeCalls = maxIterations
               /\ implCalls = maxIterations
               /\ Len(history) = 2 * maxIterations)

\* C3's case: a run of two acting iterations that ended at a budget of two.
C3_Witness ==
    pc = "done" /\ onlyActed /\ maxIterations = 2 /\ iterationCount = 2 /\ executeCalls = 2

\* The k-th reply was finish with its reason, after k-1 acting iterations, and
\* its iteration has returned.
FinishedAfterActing ==
    /\ pc \in {"loop", "done"}
    /\ iterEnd = "returned"
    /\ action.name = "finish"
    /\ onlyActedBefore

\* C4: after k-1 valid non-finish actions, a finish action carrying reason as
\* the k-th reply (k <= maxIterations) ends the run after exactly k iterations:
\* the finish result is the last observation, and no further model request or
\* dispatch follows.
C4_FinishEndsRun ==
    /\ [](FinishedAfterActing =>
            /\ done
            /\ iterationCount <= maxIterations
            /\ sendPromptCalls = iterationCount
            /\ executeCalls = iterationCount
            /\ Len(history) = 2 * iterationCount
            /\ Last(history) = [type |-> "observation", content |-> result]
            /\ result.success
            /\ result.message =
                   (IF action.parameters["reason"] = "" THEN "Task completed"
                    ELSE action.parameters["reason"]))
    /\ [][FinishedAfterActing =>
            /\ pc' = "done"
            /\ UNCHANGED <<history, iterationCount, sendPromptCalls, executeCalls,
                           implCalls, inflightRequests, inflightActions>>]_vars

\* C4's case: finish as the second reply of a run with a budget of two or more,
\* and the run has returned.
C4_Witness ==
    FinishedAfterActing /\ pc = "done" /\ iterationCount = 2 /\ Len(history) = 4

\* C5: an iteration whose parsed action is named finish ends the run in that
\* iteration, whatever its parameters.
C5_FinishNameEndsRun ==
    (AtBoundary /\ action.name = "finish") => done

(***************************************************************************)
(* The iteration's error path and history.                                 *)
(***************************************************************************)
\* C6: an iteration that ends on the error path leaves history as it was when
\* the iteration started.
C6_ErrorLeavesHistory ==
    (AtBoundary /\ iterEnd = "error") => history = historyAtStart

\* {"action": {"name": ..., "parameters": ...}}
WellShaped(v) ==
    v.kind = "object" /\ v.hasAction /\ v.action.hasName /\ v.action.hasParams

\* C7: a reply that is JSON but not an object with an action holding both name
\* and parameters is a parse failure: nothing is appended to history and
\* ActionExecutor.execute is not called.
C7_MalformedActionIsParseFailure ==
    (AtBoundary /\ parsed.ok /\ ~WellShaped(parsed.value)) =>
        /\ iterEnd = "error"
        /\ history = historyAtStart
        /\ executeCalls = executeCallsAtStart

\* A non-finish action came back with success:false and its iteration returned.
FailureReturned ==
    AtBoundary /\ iterEnd = "returned" /\ action.name # "finish" /\ ~result.success

\* C8: a non-finish action whose result has success:false is no error: action
\* and result are appended as action item then observation item, the loop goes
\* on unless the budget is reached, and the next prompt shows the failure.
C8_FailureIsObserved ==
    /\ FailureReturned =>
        /\ history = historyAtStart \o <<[type |-> "action", content |-> action],
                                         [type |-> "observation", content |-> result]>>
        /\ done = (iterationCount >= maxIterations)
    /\ (/\ pc \in {"request", "sleep"}
        /\ Len(history) >= 2
        /\ Last(history).type = "observation"
        /\ ~Last(history).content.success) =>
            /\ Len(prompt.blocks) = Len(history)
            /\ Last(prompt.blocks) =
                   [label |-> "OBSERVATION:", content |-> Last(history).content]
            /\ prompt.blocks[Len(history) - 1].label = "ACTION:"

\* C8's case: the prompt of the second iteration, the first having ended with a
\* failed shell command.
C8_Witness ==
    /\ pc = "request"
    /\ iterationCount = 2
    /\ Len(history) = 2
    /\ history[2].type = "observation"
    /\ ~history[2].content.success
    /\ Len(prompt.blocks) = 2

\* An iteration has returned done, or run() has returned.
Terminated == (pc = "loop" /\ done) \/ pc = "done"

\* C9: once an iteration has returned done, run() starts no iteration, makes no
\* model request, dispatches no action, appends nothing, and returns.
C9_TerminationMonotonic ==
    [][Terminated =>
          /\ pc' = "done"
          /\ done'
          /\ UNCHANGED <<history, iterationCount, sendPromptCalls, makeRequestCalls,
                         executeCalls, implCalls, inflightRequests, inflightActions>>]_vars

\* C9's case: run() has returned on its budget with history written.
C9_Witness ==
    pc = "done" /\ action.name # "finish" /\ iterationCount = maxIterations /\ Len(history) >= 2

(***************************************************************************)
(* Sequential execution.                                                   *)
(***************************************************************************)
\* The previous action's result is the last observation, or the previous
\* iteration failed, or there is no previous iteration.
PreviousObserved ==
    \/ iterEnd = "error"
    \/ iterEnd = "none" /\ (iterationCount = 0 \/ pc = "sleep")
    \/ /\ iterEnd = "returned"
       /\ history # << >>
       /\ Last(history) = [type |-> "observation", content |-> result]

\* C10: at most one model request and at most one action execution are in
\* flight, never both; a request is issued only when no action is running and
\* the previous result has been observed (or the previous iteration failed);
\* retries of one request do not overlap.
C10_OneInFlight ==
    /\ [](/\ inflightRequests \in {0, 1}
          /\ inflightActions \in {0, 1}
          /\ inflightRequests + inflightActions <= 1)
    /\ [][inflightRequests' > inflightRequests =>
            /\ inflightRequests = 0
            /\ inflightActions = 0
            /\ PreviousObserved]_vars
    /\ [][inflightActions' > inflightActions =>
            /\ inflightActions = 0
            /\ inflightRequests = 1
            /\ inflightRequests' = 0]_vars

\* C10's case: a retried request of the second iteration is in flight, the first
\* iteration's result being observed.
C10_Witness ==
    /\ pc = "request"
    /\ retries >= 1
    /\ inflightRequests = 1
    /\ Len(history) = 2
    /\ history[2].type = "observation"

\* sendPrompt threw in the last iteration: no reply came to be parsed.
SendPromptThrew == iterEnd = "error" /\ parsed = NotParsed

\* C18: sendPrompt returns the provider's response or throws the wrapper error,
\* 'Failed to get response from LLM: ' followed by the message of the error the
\* provider call failed with last, also when the limiter used up its retries.
C18_FailureIsWrapped ==
    /\ SendPromptThrew =>
           /\ lastError \in ProviderErrors
           /\ logged = <<"Failed to get response from LLM: ", lastError>>
           /\ makeRequestCalls = maxRetries + 1
    /\ (iterEnd # "none" /\ ~SendPromptThrew) =>
           /\ parsed # NotParsed
           /\ (iterEnd = "error" => logged[1] # "Failed to get response from LLM: ")

\* C18's case: six provider calls failed, the last with a network error, and
\* the wrapper error reached executeIteration's catch.
C18_Witness ==
    /\ SendPromptThrew
    /\ makeRequestCalls = 6
    /\ logged = <<"Failed to get response from LLM: ", "Network Error">>

(***************************************************************************)
(* ActionExecutor.execute, called on its own with any action.              *)
(***************************************************************************)
\* The actions execute() is called with: every registered name and one that
\* is not, a parameter bag with any of the schemas' keys (or none at all).
ExecNames == {"shell", "readFileStats", "readFileChunk", "appendFileChunk", "finish", "bogus"}
ParamKeys == {"command", "path", "startLine", "lineCount", "content", "reason"}
ExecParams ==
    { [k \in keys |-> "v"] : keys \in SUBSET ParamKeys }
    \cup { [command |-> NotAString], [reason |-> ""] }
ExecInputs ==
    { Act(n, p) : n \in ExecNames, p \in ExecParams }
    \cup { [hasName |-> TRUE, name |-> n, hasParams |-> FALSE, parameters |-> NoParams] :
             n \in ExecNames }

\* execute() throws before it calls an implementation.
ExecuteThrows ==
    /\ exPc \in {"idle", "returned", "threw"}
    /\ \E a \in ExecInputs :
        /\ ~executeChecks(a).ok
        /\ exAction' = a
        /\ exResult' = Thrown(executeChecks(a).message)
    /\ exImplCalled' = FALSE
    /\ exOutcome' = NotCalled
    /\ exPc' = "threw"
    /\ UNCHANGED <<exRest>>

\* execute() accepts the action and calls its implementation.
ExecuteCallsImpl ==
    /\ exPc \in {"idle", "returned", "threw"}
    /\ \E a \in ExecInputs :
        /\ executeChecks(a).ok
        /\ exAction' = a
    /\ exImplCalled' = TRUE
    /\ exOutcome' = NotCalled
    /\ exResult' = NotCalled
    /\ exPc' = "impl"
    /\ UNCHANGED <<exRest>>

\* The implementation settles and execute() returns.
ExecuteReturns ==
    /\ exPc = "impl"
    /\ \E outcome \in implOutcomes(exAction) :
        /\ exOutcome' = outcome
        /\ exResult' = Returned(executeResult(outcome))
    /\ exPc' = "returned"
    /\ UNCHANGED <<exAction, exImplCalled, exRest>>

\* The controller is constructed and not run.
StandaloneInit == Init /\ maxIterations = 1

NextExec == ExecuteThrows \/ ExecuteCallsImpl \/ ExecuteReturns

SpecExec == StandaloneInit /\ [][NextExec]_vars

\* The required parameters of the called action that its parameter bag lacks.
ExMissing ==
    { i \in 1..Len(actionSchemas[exAction.name]) :
        actionSchemas[exAction.name][i] \notin DOMAIN exAction.parameters }

\* execute() was called with a registered action that has a parameter bag.
ExRegisteredCall ==
    exPc # "idle" /\ exAction.name \in DOMAIN actionSchemas /\ exAction.hasParams

\* C11: execute on a registered action that lacks a required parameter throws
\* Missing required parameter "<param>" for action "<name>", <param> being the
\* first missing one in the schema's required order, and calls no implementation.
C11_MissingParameterRejected ==
    (ExRegisteredCall /\ ExMissing # {}) =>
        /\ exPc = "threw"
        /\ ~exImplCalled
        /\ \E i \in ExMissing :
            /\ \A j \in ExMissing : i <= j
            /\ exResult = Thrown(<<"Missing required parameter \"",
                                   actionSchemas[exAction.name][i],
                                   "\" for action \"", exAction.name, "\"">>)

\* C11's case: readFileChunk called with path alone; startLine is reported, not
\* lineCount.
C11_Witness ==
    /\ exPc = "threw"
    /\ exAction.name = "readFileChunk"
    /\ exAction.hasParams
    /\ DOMAIN exAction.parameters = {"path"}
    /\ exResult.message[2] = "startLine"

\* C12: execute on a name that is not registered throws Action "<name>" is not
\* registered, before any parameter validation, and calls no implementation.
C12_UnregisteredRejected ==
    (exPc # "idle" /\ exAction.name \notin actionRegistry) =>
        /\ exPc = "threw"
        /\ ~exImplCalled
        /\ exResult = Thrown(<<"Action \"", exAction.name, "\" is not registered">>)

\* C12's case: an unregistered name with no parameter bag at all.
C12_Witness ==
    exPc = "threw" /\ exAction.name = "bogus" /\ ~exAction.hasParams

\* C13: for a registered action with all required parameters present execute
\* never throws: a throw of the implementation comes back as
\* {success:false, error:<message>}, a result comes back unchanged, and what
\* comes back carries a boolean success.
C13_ExecuteNeverThrows ==
    (ExRegisteredCall /\ ExMissing = {}) =>
        /\ exPc \in {"impl", "returned"}
        /\ exImplCalled
        /\ (exPc = "returned" =>
               /\ exResult.ok
               /\ (exOutcome.ok => exResult.value = exOutcome.value)
               /\ (~exOutcome.ok =>
                      exResult.value = [success |-> FALSE, error |-> exOutcome.message])
               /\ "success" \in DOMAIN exResult.value
               /\ exResult.value.success \in BOOLEAN)

\* C13's case: the shell implementation threw and execute returned.
C13_Witness ==
    exPc = "returned" /\ exAction.name = "shell" /\ ~exOutcome.ok /\ exResult.ok

\* C14: the registered names are the keys of actionSchemas, the five actions,
\* after construction and after any execute calls; no call ends in the
\* 'Schema not found' branch.
C14_RegistryMatchesSchemas ==
    /\ actionRegistry = DOMAIN actionSchemas
    /\ actionRegistry = {"shell", "readFileStats", "readFileChunk", "appendFileChunk", "finish"}
    /\ \A n \in ExecNames : isActionRegistered(n) <=> n \in DOMAIN actionSchemas
    /\ (exPc = "threw" => exResult.message[1] # "Schema not found for action \"")

\* C14's case: execute calls were made, the last one of a registered action that
\* was rejected for its parameters.
C14_Witness ==
    /\ exPc = "threw"
    /\ exAction.name = "appendFileChunk"
    /\ exResult.message[1] = "Missing required parameter \""

(***************************************************************************)
(* RateLimiter.execute, called on its own with any operation.              *)
(***************************************************************************)
\* The greatest maxRetries a limiter is built with here.
MaxRetriesRL == 3
\* The baseDelay values: the default, the tests' and the least.
BaseDelays == {DefaultBaseDelay, 100, 1}
\* What fn resolves with.
FnValues == {"success", "other"}

\* new RateLimiter(baseDelay, maxRetries).execute(fn): the first attempt starts.
LimiterExecute ==
    /\ rlPc = "idle"
    /\ rlBaseDelay' \in BaseDelays
    /\ rlMaxRetries' \in 0..MaxRetriesRL
    /\ rlRetries' = 0
    /\ rlLastError' = ""
    /\ rlCalls' = 1
    /\ rlPc' = "call"
    /\ UNCHANGED <<rlDelay, rlDelayCalls, rlResolved, rlResult, rluRest>>

\* fn resolves.
LimiterFnResolves ==
    /\ rlPc = "call"
    /\ \E v \in FnValues :
        /\ rlResolved' = v
        /\ rlResult' = IF afterFnResolves = "returned" THEN Returned(v) ELSE rlResult
    /\ rlCalls' = IF afterFnResolves = "call" THEN rlCalls + 1 ELSE rlCalls
    /\ rlPc' = afterFnResolves
    /\ UNCHANGED <<rlBaseDelay, rlMaxRetries, rlRetries, rlLastError, rlDelay,
                   rlDelayCalls, rluRest>>

\* fn rejects and retries are left: count, compute the delay, sleep.
LimiterFnFailsRetry ==
    /\ rlPc = "call"
    /\ ~retriesExceeded(rlRetries + 1, rlMaxRetries)
    /\ \E message \in ProviderErrors : rlLastError' = message
    /\ rlRetries' = rlRetries + 1
    /\ \E jitter \in Jitters(exponentialDelay(rlBaseDelay, rlRetries + 1)) :
        rlDelay' = calculateDelay(rlBaseDelay, rlRetries + 1, jitter)
    /\ rlDelayCalls' = rlDelayCalls + 1
    /\ rlPc' = "sleep"
    /\ UNCHANGED <<rlBaseDelay, rlMaxRetries, rlCalls, rlResolved, rlResult,
                   rluRest>>

\* The sleep is over: the while loop calls fn again.
LimiterWake ==
    /\ rlPc = "sleep"
    /\ rlRetries <= rlMaxRetries
    /\ rlDelay' = 0
    /\ rlCalls' = rlCalls + 1
    /\ rlPc' = "call"
    /\ UNCHANGED <<rlBaseDelay, rlMaxRetries, rlRetries, rlLastError, rlDelayCalls,
                   rlResolved, rlResult, rluRest>>

\* fn rejects and the retries are used up: execute rethrows the error.
LimiterFnFailsFinal ==
    /\ rlPc = "call"
    /\ retriesExceeded(rlRetries + 1, rlMaxRetries)
    /\ \E message \in ProviderErrors :
        /\ rlLastError' = message
        /\ rlResult' = Thrown(<<message>>)
    /\ rlRetries' = rlRetries + 1
    /\ rlPc' = "threw"
    /\ UNCHANGED <<rlBaseDelay, rlMaxRetries, rlDelay, rlCalls, rlDelayCalls,
                   rlResolved, rluRest>>

NextLimiter ==
    \/ LimiterExecute
    \/ LimiterFnResolves
    \/ LimiterFnFailsRetry
    \/ LimiterWake
    \/ LimiterFnFailsFinal

SpecLimiter == StandaloneInit /\ [][NextLimiter]_vars

\* C15: with an operation that always fails, execute invokes it maxRetries + 1
\* times, for every maxRetries >= 0, and then rethrows the last error the
\* operation threw, message unchanged; it does not end before.
C15_AlwaysFailingRethrown ==
    /\ (rlPc = "threw" =>
           /\ rlCalls = rlMaxRetries + 1
           /\ rlLastError \in ProviderErrors
           /\ rlResult = Thrown(<<rlLastError>>)
           /\ rlResolved = "")
    /\ ((rlPc \in {"call", "sleep"} /\ rlResolved = "") =>
           /\ rlCalls <= rlMaxRetries + 1
           /\ rlCalls = rlRetries + (IF rlPc = "call" THEN 1 ELSE 0))

\* C15's case: three retries were made and the fourth failure was rethrown.
C15_Witness ==
    rlPc = "threw" /\ rlMaxRetries = 3 /\ rlCalls = 4 /\ rlResult = Thrown(<<"Network Error">>)

\* C16: when the operation fails k-1 times and resolves on attempt k, with k
\* <= maxRetries + 1, execute returns what it resolved with after exactly k
\* invocations, and invokes it no more.
C16_SucceedsOnAttemptK ==
    (rlResolved # "") =>
        /\ rlPc = "returned"
        /\ rlResult = Returned(rlResolved)
        /\ rlCalls = rlRetries + 1
        /\ rlCalls <= rlMaxRetries + 1
        /\ ~ENABLED NextLimiter

\* C16's case: the operation failed twice and resolved on attempt 3.
C16_Witness ==
    rlPc = "returned" /\ rlCalls = 3 /\ rlRetries = 2 /\ rlResult = Returned("success")

MaxTextLen == 5
Pieces == {Fence, JsonTag, Ws, Quote, ObjOpen, ObjClose, Junk, Val(JNull)}
Texts == UNION { [1..n -> Pieces] : n \in 0..MaxTextLen }

\* parseJSON is applied to a text and to the text in either fence.
ParseTexts ==
    /\ pjPc = "idle"
    /\ \E t \in Texts :
        /\ pjText' = t
        /\ pjPlain' = parseJSON(t)
        /\ pjJsonFenced' = parseJSON(jsonFenced(t))
        /\ pjBareFenced' = parseJSON(bareFenced(t))
    /\ pjPc' = "parsed"
    /\ UNCHANGED <<pjRest>>

NextParser == ParseTexts

SpecParser == StandaloneInit /\ [][NextParser]_vars

\* t is valid JSON: JSON.parse accepts it as it stands.
ValidJSON == pjPc = "parsed" /\ JSONparse(pjText).ok

\* A fence surrounds t: the trimmed text begins and ends with one.
Surrounded ==
    LET c == trim(pjText) IN
    Len(c) >= 2 /\ c[1].t = "fence" /\ c[Len(c)].t = "fence"

\* C19: for every valid JSON text t, parseJSON of t, of t in a json-tagged fence
\* and of t in a bare fence yield the same value, the one t denotes.
C19_FencedParsesAlike ==
    ValidJSON =>
        /\ pjPlain = JSONparse(pjText)
        /\ pjJsonFenced = pjPlain
        /\ pjBareFenced = pjPlain

\* C20: a text that no fence surrounds is parsed as it stands; so a valid
\* JSON object with a triple backtick in a string value parses to that object.
C20_UnfencedParsedAsItStands ==
    (pjPc = "parsed" /\ ~Surrounded) =>
        /\ pjPlain.ok = JSONparse(pjText).ok
        /\ (pjPlain.ok => pjPlain = JSONparse(pjText))

\* Texts without a triple backtick: the three parses agree on every valid one,
\* and each is parsed as it stands.
FenceFreeTextsAgree ==
    (pjPc = "parsed" /\ ~includesFence(pjText)) =>
        /\ pjPlain.ok = JSONparse(pjText).ok
        /\ (pjPlain.ok =>
               /\ pjPlain = JSONparse(pjText)
               /\ pjJsonFenced = pjPlain
               /\ pjBareFenced = pjPlain)

(***************************************************************************)
(* tools/actions/fileSystem.ts: readFileChunk, called on its own.          *)
(***************************************************************************)
\* The longest file, in characters, and the greatest startLine and lineCount.
MaxFileLen == 3
MaxStartLine == 2
MaxLineCount == 3
FileChars == {"a", "b", "\n"}
Contents == UNION { [1..n -> FileChars] : n \in 0..MaxFileLen }
Files == {Absent, Directory, Denied} \cup { File(c) : c \in Contents }

\* content.split("\n")
RECURSIVE splitNewline(_)
splitNewline(content) ==
    LET at == { i \in 1..Len(content) : content[i] = "\n" } IN
    IF at = {} THEN <<content>>
    ELSE <<SubSeq(content, 1, Least(at) - 1)>>
         \o splitNewline(SubSeq(content, Least(at) + 1, Len(content)))

\* The lines readline emits for a stream of these characters: the segments
\* between newlines, without an empty one after the last newline.
readlineLines(content) ==
    LET segments == splitNewline(content) IN
    IF segments[Len(segments)] = << >>
        THEN SubSeq(segments, 1, Len(segments) - 1)
        ELSE segments

\* lines.join("\n")
RECURSIVE join(_)
join(lines) ==
    IF Len(lines) = 0 THEN << >>
    ELSE IF Len(lines) = 1 THEN lines[1]
    ELSE lines[1] \o <<"\n">> \o join(Tail(lines))

\* The 'line' handler's quota check, made after the push.
quotaReached(lines, lineCount) == Len(lines) >= lineCount

\* reachedEOF with the comparison including lineCount itself.
reachedEOF_AtMost(lines, lineCount) == Len(lines) <= lineCount

\* reachedEOF whatever was collected.
reachedEOF_Always(lines, lineCount) == TRUE

\* The 'close' handler's reachedEOF.
reachedEOF(lines, lineCount) == Len(lines) < lineCount

\* The 'close' handler's result.
closeResult(lines, lineCount) ==
    IF Len(lines) = 0
        THEN [success |-> TRUE, content |-> << >>, readLines |-> 0, isEOF |-> TRUE,
              message |-> "File is empty"]
        ELSE [success |-> TRUE, content |-> join(lines), readLines |-> Len(lines),
              isEOF |-> reachedEOF(lines, lineCount), message |-> "Read lines from file"]

\* resolve(): the first call settles the promise, later ones change nothing.
resolve(settled, value) == IF settled = NotCalled THEN Returned(value) ELSE settled

\* readFileChunk is called: fs.stat decides whether the stream is opened.
ReadChunkCall ==
    /\ rdPc = "idle"
    /\ rdFile' \in Files
    /\ rdStartLine' \in 0..MaxStartLine
    /\ rdLineCount' \in 0..MaxLineCount
    /\ rdPc' = IF rdFile'.kind \in {"file", "directory"} THEN "open" ELSE "over"
    /\ rdResult' =
        CASE rdFile'.kind = "absent" ->
                Returned([success |-> FALSE, message |-> "File does not exist"])
          [] rdFile'.kind = "denied" ->
                Returned([success |-> FALSE, message |-> "Error reading file chunk: EACCES"])
          [] OTHER -> NotCalled
    /\ UNCHANGED <<rdEmitted, rdCurrentLine, rdLines, rdClosed, rdErrored, rdRest>>

\* readline emits the next line; the handler skips it, or collects it and
\* closes the interface at the quota, which runs the 'close' handler at once.
\* Lines already buffered are emitted after a close as well.
ReadLine ==
    /\ rdPc = "open"
    /\ rdFile.kind = "file"
    /\ ~rdErrored
    /\ rdEmitted < Len(readlineLines(rdFile.content))
    /\ rdEmitted' = rdEmitted + 1
    /\ rdCurrentLine' = rdCurrentLine + 1
    /\ IF rdCurrentLine < rdStartLine
        THEN UNCHANGED <<rdLines, rdClosed, rdResult>>
        ELSE /\ rdLines' = Append(rdLines, readlineLines(rdFile.content)[rdEmitted + 1])
             /\ IF quotaReached(rdLines', rdLineCount)
                 THEN /\ rdClosed' = TRUE
                      /\ rdResult' = IF rdClosed THEN rdResult
                                     ELSE resolve(rdResult, closeResult(rdLines', rdLineCount))
                 ELSE UNCHANGED <<rdClosed, rdResult>>
    /\ UNCHANGED <<rdPc, rdFile, rdStartLine, rdLineCount, rdErrored, rdRest>>

\* The stream ends: readline closes and the 'close' handler runs.
ReadEnd ==
    /\ rdPc = "open"
    /\ rdFile.kind = "file"
    /\ ~rdErrored
    /\ rdEmitted = Len(readlineLines(rdFile.content))
    /\ rdClosed' = TRUE
    /\ rdResult' = IF rdClosed THEN rdResult
                   ELSE resolve(rdResult, closeResult(rdLines, rdLineCount))
    /\ rdPc' = "over"
    /\ UNCHANGED <<rdFile, rdStartLine, rdLineCount, rdEmitted, rdCurrentLine, rdLines,
                   rdErrored, rdRest>>

\* The file stream raises an error (a directory raises EISDIR on the first
\* read).  Where readline forwards the error of its input, the handler of
\* rl's 'error' runs first; then the handler of the stream's 'error' closes
\* the interface, which runs the 'close' handler, and resolves.
StreamError ==
    /\ rdPc = "open"
    /\ ~rdClosed
    /\ \E forwarded \in BOOLEAN :
        LET first == IF forwarded
                     THEN resolve(rdResult, [success |-> FALSE,
                                             message |-> "Error reading file chunk: EIO"])
                     ELSE rdResult
            closed == resolve(first, closeResult(rdLines, rdLineCount))
        IN  rdResult' = resolve(closed, [success |-> FALSE,
                                         message |-> "File stream error: EIO"])
    /\ rdClosed' = TRUE
    /\ rdErrored' = TRUE
    /\ rdPc' = "over"
    /\ UNCHANGED <<rdFile, rdStartLine, rdLineCount, rdEmitted, rdCurrentLine, rdLines,
                   rdRest>>

NextReader == ReadChunkCall \/ ReadLine \/ ReadEnd \/ StreamError

SpecReader == StandaloneInit /\ [][NextReader]_vars

\* A read that ended with success:true and without an error of the stream.
ReadSucceeded ==
    rdResult # NotCalled /\ rdResult.ok /\ rdResult.value.success /\ ~rdErrored

\* The number of lines of the file, as readline walks it.
RdN == Len(readlineLines(rdFile.content))

\* The lines with 0-based index in [startLine, startLine + lineCount) that exist.
RdWanted ==
    LET lines == readlineLines(rdFile.content)
        last == IF rdStartLine + rdLineCount < RdN THEN rdStartLine + rdLineCount ELSE RdN
    IN  SubSeq(lines, rdStartLine + 1, last)

\* C21: for a file of N lines, startLine >= 0 and lineCount >= 0, readFileChunk
\* returns the lines with index in [startLine, startLine + lineCount) that
\* exist, joined by newline; readLines = min(lineCount, max(0, N - startLine))
\* and never exceeds lineCount.
C21_ChunkIsTheWindow ==
    ReadSucceeded =>
        /\ rdResult.value.content = join(RdWanted)
        /\ rdResult.value.readLines = Len(RdWanted)
        /\ rdResult.value.readLines <= rdLineCount

\* readFileChunk ended with a success:true result.
RdSuccess == rdResult # NotCalled /\ rdResult.ok /\ rdResult.value.success

\* C22 as stated: for every successful readFileChunk, isEOF is true if and only
\* if readLines < lineCount; a read that collects no line returns content "",
\* readLines 0 and isEOF true.
C22_EofIffShort ==
    ReadSucceeded =>
        /\ rdResult.value.isEOF <=> (rdResult.value.readLines < rdLineCount)
        /\ (rdResult.value.readLines = 0 =>
               rdResult.value.content = << >> /\ rdResult.value.isEOF)

\* C22 amended: isEOF is true if and only if readLines < lineCount or no line
\* was collected; a read that collects no line returns content "", readLines 0
\* and isEOF true, whatever lineCount is.
C22_EofIffShortOrEmpty ==
    RdSuccess =>
        /\ rdResult.value.isEOF <=>
               (rdResult.value.readLines < rdLineCount \/ rdResult.value.readLines = 0)
        /\ (rdResult.value.readLines = 0 =>
               rdResult.value.content = << >> /\ rdResult.value.isEOF)
        /\ (~rdErrored /\ rdLineCount >= 1 =>
               (rdResult.value.isEOF <=> RdN - rdStartLine < rdLineCount))

\* C22's case: lineCount = 0 on an empty file: no line collected, isEOF true.
C22_Witness ==
    /\ RdSuccess
    /\ rdFile = File(<< >>)
    /\ rdLineCount = 0
    /\ rdResult.value.readLines = 0
    /\ rdResult.value.isEOF

statsLineCount_Newlines(content) == Len(splitNewline(content)) - 1

\* readFileStats' lineCount
statsLineCount(content) == Len(splitNewline(content))

\* The result of the catch of readFileStats.
statsCaught(code) ==
    IF code = "ENOENT"
        THEN [success |-> TRUE, exists |-> FALSE, size |-> 0, lineCount |-> 0,
              message |-> "File does not exist"]
        ELSE [success |-> FALSE, exists |-> FALSE,
              message |-> "Error getting file stats: " \o code]

\* readFileStats' catch taking a missing file for an error like any other.
readFileStats_AbsentFails(file, read) ==
    CASE file.kind = "absent" ->
            [success |-> FALSE, exists |-> FALSE, message |-> "Error getting file stats: ENOENT"]
      [] file.kind = "denied" -> statsCaught("EACCES")
      [] file.kind = "directory" ->
            [success |-> FALSE, exists |-> FALSE, message |-> "Path exists but is not a file"]
      [] OTHER ->
            IF read # "ok" THEN statsCaught(read)
            ELSE [success |-> TRUE, exists |-> TRUE, size |-> Len(file.content),
                  lineCount |-> statsLineCount(file.content),
                  message |-> "File stats retrieved successfully"]

\* readFileStats: fs.stat, isFile, fs.readFile, and the catch.
readFileStats(file, read) ==
    CASE file.kind = "absent" -> statsCaught("ENOENT")
      [] file.kind = "denied" -> statsCaught("EACCES")
      [] file.kind = "directory" ->
            [success |-> FALSE, exists |-> FALSE, message |-> "Path exists but is not a file"]
      [] OTHER ->
            IF read # "ok" THEN statsCaught(read)
            ELSE [success |-> TRUE, exists |-> TRUE, size |-> Len(file.content),
                  lineCount |-> statsLineCount(file.content),
                  message |-> "File stats retrieved successfully"]

\* readFileStats is called on a path; fs.readFile of a regular file can still
\* fail (the file was removed meanwhile, or may not be read).
StatsCall ==
    /\ stPc = "idle"
    /\ stFile' \in Files
    /\ stRead' \in IF stFile'.kind = "file" THEN {"ok", "ENOENT", "EACCES"} ELSE {"ok"}
    /\ stResult' = Returned(readFileStats(stFile', stRead'))
    /\ stPc' = "done"
    /\ UNCHANGED stRest

NextStats == StatsCall

SpecStats == StandaloneInit /\ [][NextStats]_vars

\* C24: readFileStats on a path that does not exist returns success:true with
\* exists:false, size 0, lineCount 0; every other failure (not a regular file,
\* another I/O error) returns success:false with exists:false; exists:true
\* occurs only with success:true.
C24_AbsenceIsNoError ==
    stPc = "done" =>
        /\ stResult.ok
        /\ ((stFile = Absent \/ (stFile.kind = "file" /\ stRead = "ENOENT")) =>
               /\ stResult.value.success
               /\ ~stResult.value.exists
               /\ stResult.value.size = 0
               /\ stResult.value.lineCount = 0)
        /\ ((stFile.kind \in {"directory", "denied"}
             \/ (stFile.kind = "file" /\ stRead = "EACCES")) =>
               ~stResult.value.success /\ ~stResult.value.exists)
        /\ (stResult.value.exists => stResult.value.success)

\* C24's case: nothing is at the path.
C24_Witness ==
    stPc = "done" /\ stFile = Absent /\ stResult.value.success /\ ~stResult.value.exists

\* The stats of a regular file that was read.
StatsOfFile ==
    stPc = "done" /\ stFile.kind = "file" /\ stRead = "ok"

\* The file ends with a newline.
StTrailingNewline ==
    Len(stFile.content) > 0 /\ stFile.content[Len(stFile.content)] = "\n"

MaxAppends == 2
\* The content parameter: texts, and a value that is no string.
AppendContents == { << >>, <<"a">>, <<"b", "\n">>, <<NotAString>> }

\* fs.writeFile in the place of fs.appendFile: the content replaces the file.
fsAppendFile_Truncating(file, content, fails) ==
    IF content = <<NotAString>> THEN [code |-> "ERR_INVALID_ARG_TYPE", file |-> file]
    ELSE IF file.kind = "directory" THEN [code |-> "EISDIR", file |-> file]
    ELSE IF file.kind = "denied" THEN [code |-> "EACCES", file |-> file]
    ELSE IF fails THEN [code |-> "ENOSPC", file |-> file]
    ELSE [code |-> "", file |-> File(content)]

\* fs.appendFile: creates the file when it is absent, writes at its end when
\* it is there, and rejects with a code and the file as it was.
fsAppendFile(file, content, fails) ==
    IF content = <<NotAString>> THEN [code |-> "ERR_INVALID_ARG_TYPE", file |-> file]
    ELSE IF file.kind = "directory" THEN [code |-> "EISDIR", file |-> file]
    ELSE IF file.kind = "denied" THEN [code |-> "EACCES", file |-> file]
    ELSE IF fails THEN [code |-> "ENOSPC", file |-> file]
    ELSE [code |-> "", file |-> File(file.content \o content)]

\* appendFileChunk's result for what fs.appendFile did.
appendFileChunk(code) ==
    IF code = ""
        THEN [success |-> TRUE, message |-> "Content appended successfully"]
        ELSE [success |-> FALSE, message |-> "Error appending to file: " \o code]

\* appendFileChunk is called on the path; the first call finds what was there.
AppendCall ==
    /\ apCalls < MaxAppends
    /\ \E prior \in (IF apCalls = 0 THEN Files ELSE {apFile}),
          content \in AppendContents, fails \in BOOLEAN :
        LET written == fsAppendFile(prior, content, fails) IN
        /\ apOriginal' = IF apCalls = 0 THEN prior ELSE apOriginal
        /\ apFile' = written.file
        /\ apResult' = Returned(appendFileChunk(written.code))
        /\ apAppended' = IF written.code = "" THEN Append(apAppended, content) ELSE apAppended
    /\ apCalls' = apCalls + 1
    /\ UNCHANGED apRest

NextAppender == AppendCall

SpecAppender == StandaloneInit /\ [][NextAppender]_vars

\* The appended contents, one after the other.
RECURSIVE concat(_)
concat(contents) ==
    IF Len(contents) = 0 THEN << >> ELSE contents[1] \o concat(Tail(contents))

\* C26: appendFileChunk never truncates or rewrites: after the successful
\* appends c1, c2 the file holds what it held before (nothing if it was not
\* there), then c1, then c2; a failed append returns {success:false, message},
\* does not throw and leaves the file as it was.
C26_AppendsConcatenate ==
    apCalls > 0 =>
        /\ apResult.ok
        /\ apResult.value.success \in BOOLEAN
        /\ "message" \in DOMAIN apResult.value
        /\ (Len(apAppended) = 0 => apFile = apOriginal)
        /\ (Len(apAppended) > 0 =>
               apFile = File(apOriginal.content \o concat(apAppended)))

\* C26's case: two successful appends to a file that held "a".
C26_Witness ==
    /\ apCalls = 2
    /\ apOriginal = File(<<"a">>)
    /\ apAppended = << <<"b", "\n">>, <<"a">> >>
    /\ apFile = File(<<"a", "b", "\n", "a">>)

(***************************************************************************)
(* The shell action, executed on its own.                                  *)
(***************************************************************************)
\* The greatest exit code and the greatest number of shell actions.
MaxExitCode == 2
MaxShellCalls == 3
Children ==
    { Exits(c, o, e) : c \in 0..MaxExitCode, o \in {"", "out"}, e \in {"", "err"} }
    \cup { Killed(o, e) : o \in {"", "out"}, e \in {"", "err"} }
    \cup { SpawnFails, NeverExits, CommandNotAString }

\* error.code of exec's callback: a number, a string, or null; no error at all
\* when the child exited with 0.
Num(n) == [type |-> "number", n |-> n]
Str(text) == [type |-> "string", text |-> text]
Null == [type |-> "null"]
errorCode(child) ==
    CASE child.kind = "exits" -> Num(child.code)
      [] child.kind = "killed" -> Null
      [] OTHER -> Str("ENOENT")

\* error.code || 1
codeOrOne(code) == IF code \in {Null, Num(0), Str("")} THEN Num(1) ELSE code

\* The result exec's callback resolves with.
callbackResult(child) ==
    IF child.kind = "exits" /\ child.code = 0
        THEN [success |-> TRUE, exitCode |-> Num(0), stdout |-> child.stdout,
              stderr |-> child.stderr]
        ELSE [success |-> FALSE, exitCode |-> codeOrOne(errorCode(child)),
              stdout |-> child.stdout, stderr |-> child.stderr,
              error |-> "Command failed"]

\* The result the handler of the child's 'error' resolves with.
errorEventResult ==
    [success |-> FALSE, exitCode |-> Num(1), stdout |-> "", stderr |-> "spawn ENOENT",
     error |-> "spawn ENOENT"]

\* The shell action is called: exec starts the child, or throws for a command
\* that is no string, which rejects the promise.
ShellExecute ==
    /\ shPc \in {"idle", "settled", "rejected"}
    /\ shCalls < MaxShellCalls
    /\ shCalls' = shCalls + 1
    /\ shChild' \in Children
    /\ shCallback' = FALSE
    /\ shErrorEvent' = FALSE
    /\ shResolves' = 0
    /\ IF shChild' = CommandNotAString
        THEN /\ shPc' = "rejected"
             /\ shResult' = Thrown(<<"The \"command\" argument must be of type string">>)
        ELSE /\ shPc' = "running"
             /\ shResult' = NotCalled
    /\ UNCHANGED shRest

\* The child is over (or could not be spawned): exec calls the callback.
ShellCallback ==
    /\ shPc \in {"running", "settled"}
    /\ shChild.kind \in {"exits", "killed", "spawnfails"}
    /\ ~shCallback
    /\ shCallback' = TRUE
    /\ shResolves' = shResolves + 1
    /\ shResult' = resolve(shResult, callbackResult(shChild))
    /\ shPc' = "settled"
    /\ UNCHANGED <<shCalls, shChild, shErrorEvent, shRest>>

\* The child could not be spawned: it emits 'error'.
ShellErrorEvent ==
    /\ shPc \in {"running", "settled"}
    /\ shChild.kind = "spawnfails"
    /\ ~shErrorEvent
    /\ shErrorEvent' = TRUE
    /\ shResolves' = shResolves + 1
    /\ shResult' = resolve(shResult, errorEventResult)
    /\ shPc' = "settled"
    /\ UNCHANGED <<shCalls, shChild, shCallback, shRest>>

NextShell == ShellExecute \/ ShellCallback \/ ShellErrorEvent

SpecShell == StandaloneInit /\ [][NextShell]_vars

\* The runtime delivers the events of a child that is over.
SpecShellFair == SpecShell /\ WF_vars(ShellCallback) /\ WF_vars(ShellErrorEvent)

\* C27: every result of the shell action has success = true if and only if
\* exitCode = 0; the promise always resolves and never rejects, and it is
\* settled with one result also when both the callback and 'error' fire.
C27_SuccessIffExitZero ==
    /\ shPc # "rejected"
    /\ (shPc = "settled" =>
           /\ shResult.ok
           /\ shResult.value.success <=> (shResult.value.exitCode = Num(0))
           /\ shResolves >= 1
           /\ (shResolves = 2 => shCallback /\ shErrorEvent /\ ~shResult.value.success))

\* C28: the shell action ends a command that never exits by a timeout: the
\* action still returns a result, with success:false.
C28_NeverExitingCommandTimesOut ==
    (shPc = "running" /\ shChild = NeverExits)
        ~> (shPc = "settled" /\ ~shResult.value.success)

(***************************************************************************)
(* cli.ts: the agent started with rate-limit and confirmation options      *)
(***************************************************************************)
\* The command lines tried: each option given or not.
CliArgs ==
    [rateLimitBaseDelay : {0, 200}, rateLimitMaxRetries : {0, 2},
     confirmActions : {<< >>, <<TRUE>>}]

\* cli.ts: config = loadConfig(options), then new OpenAIClient(config.llmApiKey),
\* whose constructor builds `new RateLimiter()` without arguments, and
\* new AgentController(task, llmClient, {maxIterations, llmModel, confirmActions}).
\* The agent's limiter therefore starts as in AgentInit whatever the options.
InitConfigured ==
    /\ AgentInit
    /\ maxIterations = 1
    /\ CallsIdle
    /\ \E cliArgs \in CliArgs : config = loadConfig(cliArgs)
    /\ confirmations = 0

\* The agent loop of a configured start. No statement of run() or
\* executeIteration reads config.confirmActions or asks the user anything, and
\* none reads the rate-limit settings: Next leaves config and confirmations alone.
SpecConfigured == InitConfigured /\ [][Next]_vars

\* C29: the user's rate-limit settings govern the agent's model calls: one
\* sendPrompt makes at most config.rateLimitMaxRetries + 1 provider requests, and
\* the n-th backoff is drawn from the configured base delay
\* (base * 2^(n-1) plus at most half of it again).
C29_SettingsGovernModelCalls ==
    /\ makeRequestCalls <= config.rateLimitMaxRetries + 1
    /\ (pc = "sleep" =>
           /\ delay >= exponentialDelay(config.rateLimitBaseDelay, retries)
           /\ 2 * delay <= 3 * exponentialDelay(config.rateLimitBaseDelay, retries))

\* C30: with confirmActions set, every action handed to ActionExecutor.execute
\* was confirmed first: there are never more dispatches than confirmations.
C30_ConfirmedBeforeDispatch ==
    config.confirmActions => executeCalls <= confirmations

(***************************************************************************)
(* llm/Tokenizer.ts                                                        *)
(***************************************************************************)
\* Token counts tried lie within MaxOff of a limit; texts given to truncateToFit
\* have at most MaxChars characters.
MaxOff == 1
MaxChars == 120

\* truncated.slice(0, truncated.length - 100)
SliceChars == 100

MODEL_TOKEN_LIMITS ==
    ("gpt-3.5-turbo" :> 4096) @@ ("gpt-3.5-turbo-16k" :> 16384) @@ ("gpt-4" :> 8192)
        @@ ("gpt-4-32k" :> 32768) @@ ("gpt-4-turbo" :> 128000)

\* Property names every object literal inherits from Object.prototype: the value
\* found under them is a function.
InheritedNames == {"constructor", "toString"}

ModelNames == DOMAIN MODEL_TOKEN_LIMITS \cup {"unknown-model"} \cup InheritedNames

Undefined == [type |-> "undefined"]
Function == [type |-> "function"]
NaN == [type |-> "NaN"]

\* MODEL_TOKEN_LIMITS[model]: a property lookup, own or inherited.
lookupLimit(model) ==
    IF model \in DOMAIN MODEL_TOKEN_LIMITS THEN Num(MODEL_TOKEN_LIMITS[model])
    ELSE IF model \in InheritedNames THEN Function
    ELSE Undefined

\* MODEL_TOKEN_LIMITS[model] || 4096: the default replaces a falsy value only.
limitOf(model) ==
    IF lookupLimit(model) = Undefined \/ lookupLimit(model) = Num(0) THEN Num(4096)
    ELSE lookupLimit(model)

\* tokenCount <= limit: a function converts to NaN, and no number is <= NaN.
fitsInContext(tokenCount, model) ==
    /\ limitOf(model).type = "number"
    /\ tokenCount <= limitOf(model).n

\* Math.max(0, limit - usedTokens): NaN when limit is not a number.
getRemainingTokens(usedTokens, model) ==
    IF limitOf(model).type = "number"
    THEN Num(IF limitOf(model).n - usedTokens > 0 THEN limitOf(model).n - usedTokens
             ELSE 0)
    ELSE NaN

\* The length of s.slice(0, end) for a string of len characters: a negative end
\* counts from the end of the string.
sliceLength(len, end) ==
    IF end < 0 THEN (IF len + end > 0 THEN len + end ELSE 0)
    ELSE (IF end < len THEN end ELSE len)

\* countTokens(text) is the encoder's: nothing for the empty text, and for a text
\* of len characters between one token and one per character.
TokenCounts(len) == IF len = 0 THEN {0} ELSE {1, (len + 3) \div 4, len}

Counts ==
    {0} \cup { l + d : l \in { MODEL_TOKEN_LIMITS[m] : m \in DOMAIN MODEL_TOKEN_LIMITS },
                       d \in (0 - MaxOff)..MaxOff }

Budgets == {0, 1, 20}

TokFitsInContext ==
    /\ tkPc = "idle"
    /\ \E model \in ModelNames, count \in Counts :
        /\ tkModel' = model
        /\ tkCount' = count
        /\ tkFits' = fitsInContext(count, model)
    /\ tkPc' = "fits"
    /\ UNCHANGED <<tkUsed, tkRemaining, tkTextLen, tkMaxTokens, tkTruncLen, tkSlices,
                   tkRest>>

TokGetRemainingTokens ==
    /\ tkPc = "idle"
    /\ \E model \in ModelNames, used \in Counts :
        /\ tkModel' = model
        /\ tkUsed' = used
        /\ tkRemaining' = getRemainingTokens(used, model)
    /\ tkPc' = "remaining"
    /\ UNCHANGED <<tkCount, tkFits, tkTextLen, tkMaxTokens, tkTruncLen, tkSlices, tkRest>>

\* truncateToFit up to the while loop: the first measurement decides whether the
\* text is returned as it is.
TokTruncateCall ==
    /\ tkPc = "idle"
    /\ \E len \in 0..MaxChars, maxTokens \in Budgets :
        /\ tkTextLen' = len
        /\ tkMaxTokens' = maxTokens
        /\ tkTruncLen' = len
        /\ \E count \in TokenCounts(len) :
            /\ tkCount' = count
            /\ tkPc' = IF count <= maxTokens THEN "truncated" ELSE "truncating"
    /\ UNCHANGED <<tkModel, tkUsed, tkFits, tkRemaining, tkSlices, tkRest>>

\* One pass of the while loop: cut, and measure what is left for the next test.
TokTruncateSlice ==
    /\ tkPc = "truncating"
    /\ tkCount > tkMaxTokens /\ tkTruncLen > 0
    /\ tkTruncLen' = sliceLength(tkTruncLen, tkTruncLen - SliceChars)
    /\ tkSlices' = tkSlices + 1
    /\ tkCount' \in TokenCounts(tkTruncLen')
    /\ UNCHANGED <<tkPc, tkModel, tkUsed, tkFits, tkRemaining, tkTextLen, tkMaxTokens,
                   tkRest>>

\* The while condition is false: return truncated.
TokTruncateReturn ==
    /\ tkPc = "truncating"
    /\ ~(tkCount > tkMaxTokens /\ tkTruncLen > 0)
    /\ tkPc' = "truncated"
    /\ UNCHANGED <<tkModel, tkCount, tkUsed, tkFits, tkRemaining, tkTextLen, tkMaxTokens,
                   tkTruncLen, tkSlices, tkRest>>

NextTokenizer ==
    \/ TokFitsInContext
    \/ TokGetRemainingTokens
    \/ TokTruncateCall
    \/ TokTruncateSlice
    \/ TokTruncateReturn

SpecTokenizer == StandaloneInit /\ [][NextTokenizer]_vars

\* The limit the model name stands for: its entry, or 4096 for any other name.
KnownOrDefault(model) ==
    IF model \in DOMAIN MODEL_TOKEN_LIMITS THEN MODEL_TOKEN_LIMITS[model] ELSE 4096

\* C31: for every model name and count, fitsInContext is true iff the count is
\* <= the model's limit, and getRemainingTokens is max(0, limit - used), never
\* negative, the limit being the model's known one or 4096 for any other name.
C31_LimitOrDefault ==
    /\ (tkPc = "fits" => (tkFits <=> tkCount <= KnownOrDefault(tkModel)))
    /\ (tkPc = "remaining" =>
           /\ tkRemaining.type = "number"
           /\ tkRemaining.n >= 0
           /\ tkRemaining.n = (IF KnownOrDefault(tkModel) - tkUsed > 0
                               THEN KnownOrDefault(tkModel) - tkUsed ELSE 0))

\* C32: truncateToFit returns the text as it is when it fits, and otherwise the
\* prefix left after removing trailing 100-character slices, as many as the loop
\* made passes, down to the empty string at most; what it returns fits the
\* budget or is empty.
C32_TruncatesBySlices ==
    tkPc = "truncated" =>
        /\ (tkSlices = 0 => tkTruncLen = tkTextLen)
        /\ tkTruncLen = (IF tkTextLen - SliceChars * tkSlices > 0
                         THEN tkTextLen - SliceChars * tkSlices ELSE 0)
        /\ (tkCount <= tkMaxTokens \/ tkTruncLen = 0)

(***************************************************************************)
(* The iteration: the order of its steps, the counter, the history         *)
(***************************************************************************)
Item(type, content) == [type |-> type, content |-> content]

\* C33: in a successful iteration the steps come in this order, each once: model
\* request, parse, append of the action item, dispatch to the executor, append
\* of the observation item, termination check. Until the model has replied
\* nothing is appended or dispatched; while the executor runs, history is the
\* iteration's starting history plus the action item alone and there was one
\* dispatch; when the iteration has returned, history is that plus the
\* observation of the one result.
C33_StepsInOrder ==
    /\ (pc \in {"request", "sleep"} =>
           /\ history = historyAtStart
           /\ executeCalls = executeCallsAtStart)
    /\ (pc = "exec" =>
           /\ parsed.ok
           /\ sendPromptCalls = iterationCount
           /\ history = historyAtStart \o <<Item("action", action)>>
           /\ executeCalls = executeCallsAtStart + 1
           /\ result = NoResult)
    /\ (iterEnd = "returned" /\ pc \in {"loop", "done"} =>
           /\ parsed.ok
           /\ sendPromptCalls = iterationCount
           /\ history = historyAtStart
                            \o <<Item("action", action), Item("observation", result)>>
           /\ executeCalls = executeCallsAtStart + 1)

\* A second successful iteration has returned.
C33_Witness ==
    /\ iterEnd = "returned" /\ pc = "loop"
    /\ Len(historyAtStart) >= 2
    /\ executeCalls = 2

\* C34: the iteration counter goes up by exactly one at the start of every
\* iteration, failed or not, and never otherwise: it always equals the number of
\* sendPrompt calls the controller made, one per iteration started, and it
\* changes only in the step that leaves run()'s loop test for the model request.
C34_CounterCountsIterations ==
    /\ [](iterationCount = sendPromptCalls)
    /\ [][(iterationCount' # iterationCount \/ sendPromptCalls' # sendPromptCalls) =>
             /\ pc = "loop" /\ pc' = "request"
             /\ iterationCount' = iterationCount + 1
             /\ sendPromptCalls' = sendPromptCalls + 1]_vars

\* A third iteration starts after a failed and a returned one.
C34_Witness ==
    /\ iterationCount = 3 /\ pc = "request"
    /\ ~onlyActedBefore /\ Len(history) >= 2

\* C35: history is append-only: across every step of a run the previous history
\* is a prefix of the new one; no item is removed, reordered or modified.
C35_HistoryAppendOnly ==
    [][/\ Len(history') >= Len(history)
       /\ SubSeq(history', 1, Len(history)) = history]_vars

\* History has grown over three appends: a rejected action and a returned
\* iteration, or more.
C35_Witness ==
    /\ Len(history) >= 3
    /\ pc = "loop"

\* C36: the prompt built at the start of an iteration holds one block for every
\* history item, in insertion order, each under the label of its type (PLAN:,
\* ACTION:, OBSERVATION:); nothing is dropped, summarized or truncated, so there
\* are as many blocks as history items.
C36_PromptShowsWholeHistory ==
    pc \in {"request", "sleep", "exec"} =>
        /\ Len(prompt.blocks) = Len(historyAtStart)
        /\ \A i \in 1..Len(historyAtStart) :
            /\ prompt.blocks[i].content = historyAtStart[i].content
            /\ prompt.blocks[i].label \in {"PLAN:", "ACTION:", "OBSERVATION:"}
            /\ prompt.blocks[i].label = HistoryLabel(historyAtStart[i].type)

\* The prompt of an iteration that starts with three items or more in history.
C36_Witness ==
    /\ pc = "request"
    /\ Len(prompt.blocks) >= 3

Count(h, type) == Cardinality({ i \in 1..Len(h) : h[i].type = type })

\* C37: at every iteration boundary each observation item is immediately
\* preceded by an action item: history never starts with an observation, never
\* holds two observations in a row, and has as many observation items as
\* executor dispatches returned a result.
C37_ObservationFollowsAction ==
    pc \in {"loop", "done"} =>
        /\ \A i \in 1..Len(history) :
            history[i].type = "observation" => (i > 1 /\ history[i - 1].type = "action")
        /\ Count(history, "observation") = implCalls - inflightActions
        /\ inflightActions = 0

\* A boundary after an action without observation and one with.
C37_Witness ==
    /\ pc = "loop"
    /\ Count(history, "observation") = 1
    /\ Count(history, "action") = 2

\* C40: the agent loop never appends a plan item and never sets the current
\* plan: every history item is an action or an observation, and no prompt
\* carries the current-plan annotation.
C40_NoPlanEver ==
    /\ \A i \in 1..Len(history) : history[i].type \in {"action", "observation"}
    /\ currentPlan = ""
    /\ prompt.plan = ""
    /\ \A i \in 1..Len(prompt.blocks) : prompt.blocks[i].label # "PLAN:"

\* A run that ended after appending items and prompting with them.
C40_Witness ==
    /\ pc = "done"
    /\ Len(history) >= 2
    /\ Len(prompt.blocks) >= 1

(***************************************************************************)
(* What the RateLimiter retries within an iteration                        *)
(***************************************************************************)
\* C39: the RateLimiter does not look at the kind of error: a provider request
\* that fails, with the rate-limit message or any other, is retried as long as
\* fewer than maxRetries retries were made and ends the iteration after that,
\* maxRetries + 1 requests made; once the provider has replied no further
\* request is made in the iteration whatever parsing and validation do, so a
\* request that succeeds at once stays the only one.
C39_RetriesProviderErrorsOnly ==
    /\ [][(pc = "request" /\ lastError' # "") =>
             /\ lastError' \in ProviderErrors
             /\ IF retries < maxRetries
                THEN pc' = "sleep" /\ retries' = retries + 1
                ELSE /\ pc' = "loop" /\ iterEnd' = "error"
                     /\ makeRequestCalls' = maxRetries + 1]_vars
    /\ [][(pc = "request" /\ lastError' = "") =>
             /\ pc' \in {"loop", "exec"}
             /\ makeRequestCalls' = makeRequestCalls
             /\ makeRequestCalls = retries + 1]_vars
    /\ [](pc \in {"loop", "exec", "done"} => inflightRequests = 0)

\* A second iteration backs off after an error that is no rate limit, the first
\* having ended on a reply that gave no action to dispatch.
C39_Witness ==
    /\ pc = "sleep"
    /\ lastError = "Network Error"
    /\ iterationCount = 2
    /\ ~onlyLLMFailures
    /\ executeCalls = 0

(***************************************************************************)
(* tools/actions/fileSystem.ts: paging through a file with readFileChunk   *)
(***************************************************************************)
\* The 'line' handler run over the lines from the i-th on, currentLineNumber
\* being i - 1: skip below startLine, else push and stop at the quota.
RECURSIVE collect(_, _, _, _, _)
collect(fileLines, i, startLine, lineCount, lines) ==
    IF i > Len(fileLines) THEN lines
    ELSE IF i - 1 < startLine THEN collect(fileLines, i + 1, startLine, lineCount, lines)
    ELSE IF quotaReached(Append(lines, fileLines[i]), lineCount)
        THEN Append(lines, fileLines[i])
    ELSE collect(fileLines, i + 1, startLine, lineCount, Append(lines, fileLines[i]))

\* readFileChunk on a file that is there and whose stream raises no error: what
\* the 'close' handler resolves with.
readFileChunk(content, startLine, lineCount) ==
    closeResult(collect(readlineLines(content), 1, startLine, lineCount, << >>), lineCount)

\* The lines a caller finds in a returned chunk.
chunkLines(chunk) == IF chunk.readLines = 0 THEN << >> ELSE splitNewline(chunk.content)

\* The first call, at startLine 0 with a lineCount of 1 or more, or the next one,
\* at startLine advanced by the readLines of the last; isEOF ends the paging.
PageCall ==
    /\ pgPc \in {"idle", "paging"}
    /\ IF pgPc = "idle"
        THEN /\ pgFile' \in Contents
             /\ pgLineCount' \in 1..MaxLineCount
        ELSE UNCHANGED <<pgFile, pgLineCount>>
    /\ LET chunk == readFileChunk(pgFile', pgStartLine, pgLineCount') IN
        /\ pgResult' = Returned(chunk)
        /\ pgLines' = pgLines \o chunkLines(chunk)
        /\ pgStartLine' = pgStartLine + chunk.readLines
        /\ pgPc' = IF chunk.isEOF THEN "eof" ELSE "paging"
    /\ pgCalls' = pgCalls + 1
    /\ UNCHANGED pgRest

NextPager == PageCall

SpecPager == StandaloneInit /\ [][NextPager]_vars

\* C38: paging a file with a fixed lineCount n >= 1 from startLine 0, advancing
\* by readLines until isEOF, terminates, and the chunks put together are the
\* file's lines: while paging, what was returned is the first startLine lines of
\* the file, each once; at isEOF it is all of them; and no more than N div n + 1
\* calls are made.
C38_PagingCoversTheFile ==
    LET fileLines == readlineLines(pgFile) IN
    /\ pgStartLine <= Len(fileLines)
    /\ pgLines = SubSeq(fileLines, 1, pgStartLine)
    /\ pgCalls <= Len(fileLines) \div pgLineCount + 1
    /\ (pgPc = "paging" => pgCalls * pgLineCount = pgStartLine)
    /\ (pgPc = "eof" => pgLines = fileLines)

\* The paging of a two-line file one line at a time is over: the third call
\* found nothing left.
C38_Witness ==
    /\ pgPc = "eof"
    /\ pgCalls = 3
    /\ Len(pgLines) = 2
    /\ pgLineCount = 1

====
